---- MODULE Spec2Model ----
(***************************************************************************)
(* The task scheduling core of src/src/orchestration/task_manager.py:      *)
(* TaskManager with its task registry, handler table, execute_task and     *)
(* the execute_all batch loop, run by an asyncio event loop.               *)
(*                                                                         *)
(* Every action is one uninterrupted run of a coroutine between two        *)
(* suspension points (an await that really suspends), which is the unit    *)
(* of atomicity the single-threaded event loop gives.                      *)
(***************************************************************************)
EXTENDS Naturals, Sequences, FiniteSets, TLC

VARIABLES tasks, handlers, execs, proc

vars == <<tasks, handlers, execs, proc>>

(***************************************************************************)
(* Bounds of the model.                                                    *)
(***************************************************************************)
\* the largest number of tasks the registry holds
MaxTasks == 3
\* the longest dependency list given to create_task
MaxDeps == 2
\* the largest number of tasks where execute_task, execute_all, create_task
\* and register_handler are called in any order
MaxTasksAnyOrder == 2

(***************************************************************************)
(* Values.                                                                 *)
(***************************************************************************)
\* uuid4 values: task ids, also the ids a caller may name without a task
Ids == 1..MaxTasks

\* TaskStatus
PENDING == "pending"
RUNNING == "running"
\* COMPLETED given the value of FAILED, which makes the two members aliases
CompletedAliasOfFailed == "failed"
COMPLETED == "completed"
FAILED == "failed"

\* TaskType, two of the four members
TaskType == {"planning", "development"}

\* Python's None
None == "None"

\* a written datetime.now() (the model keeps whether a timestamp was written,
\* not the time of day)
Stamp == "stamp"

\* the handlers a caller registers: one that returns a result, one that raises
\* an Exception, one that raises a BaseException that is no Exception
\* (asyncio.CancelledError, KeyboardInterrupt, SystemExit)
Handlers == {"ok", "err", "cancel"}

\* the dict a succeeding handler returns
Result == "result"

\* exceptions
KeyError == "KeyError"
DependencyNotCompleted == "DependencyNotCompleted"
NoHandlerRegistered == "NoHandlerRegistered"
HandlerError == "HandlerError"
CancelledError == "CancelledError"
NoExc == "none"

\* concurrent invocations of execute_all, and callers awaiting execute_task
Runners == {"r1", "r2"}
Callers == {"c1"}

\* the dependency lists a caller passes to create_task
RECURSIVE SeqsUpTo(_, _)
SeqsUpTo(S, n) ==
    IF n = 0 THEN {<<>>}
    ELSE LET shorter == SeqsUpTo(S, n - 1)
         IN  shorter \cup {Append(s, x) : s \in shorter, x \in S}

NoRepeat(s) == \A i, j \in 1..Len(s) : i # j => s[i] # s[j]

DepLists == {s \in SeqsUpTo(Ids, MaxDeps) : NoRepeat(s)}

\* the dependencies argument of create_task: a list, or the default None
DepArgs ==
    {[none |-> FALSE, list |-> s] : s \in DepLists} \cup
    {[none |-> TRUE, list |-> <<>>]}

(***************************************************************************)
(* Pure parts of the code.                                                 *)
(***************************************************************************)
\* create_task: dependencies or []
OrEmpty(deps) == IF deps.none \/ deps.list = <<>> THEN <<>> ELSE deps.list

\* create_task: the Task stored under a new id
NewTask(type, deps) ==
    [type |-> type, dependencies |-> OrEmpty(deps), status |-> PENDING,
     created_at |-> Stamp, started_at |-> None, completed_at |-> None,
     result |-> None, error |-> None]

\* uuid4(): an id no task has yet (ids are opaque: the next unused one stands
\* for any of them, which keeps self.tasks a sequence in insertion order)
NewId(ts) == Len(ts) + 1

\* execute_task: task.status = RUNNING, task.started_at = now
Started(task) == [task EXCEPT !.status = RUNNING, !.started_at = Stamp]

\* execute_task, on success: status, completed_at and result
Succeeded(task, result) ==
    [task EXCEPT !.status = COMPLETED, !.completed_at = Stamp, !.result = result]

\* execute_task, the except branch: status and error (str(e))
Failed(task, e) == [task EXCEPT !.status = FAILED, !.error = e]

\* what awaiting a handler gives: the exception it raises, or NoExc when it
\* returns its result
HandlerRaises(h) ==
    IF h = "err" THEN HandlerError
    ELSE IF h = "cancel" THEN CancelledError
    ELSE NoExc

\* except Exception: whether the clause catches x
Caught(x) == x # CancelledError

\* execute_task, the dependency loop: the exception it raises, or NoExc
RECURSIVE DepCheckFrom(_, _, _)
DepCheckFrom(ts, deps, i) ==
    IF i > Len(deps) THEN NoExc
    ELSE IF deps[i] \notin DOMAIN ts THEN KeyError
    ELSE IF ts[deps[i]].status # COMPLETED THEN DependencyNotCompleted
    ELSE DepCheckFrom(ts, deps, i + 1)

\* execute_task without its dependency loop
DepCheckSkipped(ts, t) == NoExc

DepCheck(ts, t) == DepCheckFrom(ts, ts[t].dependencies, 1)

\* execute_all, all(... for dep in task.dependencies): TRUE, FALSE, or KeyError
\* when the generator reaches an unknown id before a dependency that is not
\* completed
RECURSIVE AllCompletedFrom(_, _, _)
AllCompletedFrom(ts, deps, i) ==
    IF i > Len(deps) THEN "True"
    ELSE IF deps[i] \notin DOMAIN ts THEN KeyError
    ELSE IF ts[deps[i]].status # COMPLETED THEN "False"
    ELSE AllCompletedFrom(ts, deps, i + 1)

AllCompleted(ts, t) == AllCompletedFrom(ts, ts[t].dependencies, 1)

\* execute_all, the list comprehension: whether it raises KeyError
ScanRaises(ts) ==
    \E t \in DOMAIN ts : ts[t].status = PENDING /\ AllCompleted(ts, t) = KeyError

\* the comprehension taking only the tasks that have no dependencies
ExecutableRoots(ts) ==
    {t \in DOMAIN ts : ts[t].status = PENDING /\ ts[t].dependencies = <<>>}

\* the comprehension without its dependency condition
ExecutableAnyPending(ts) == {t \in DOMAIN ts : ts[t].status = PENDING}

\* execute_all, the list comprehension: the executable task ids
Executable(ts) ==
    {t \in DOMAIN ts : ts[t].status = PENDING /\ AllCompleted(ts, t) = "True"}

(***************************************************************************)
(* State.                                                                  *)
(*   tasks     self.tasks, a function from the ids in use to Task records  *)
(*   handlers  self.handlers, None where no handler is registered          *)
(*   execs     the execute_task coroutines that have not finished          *)
(*   proc      the execute_all invocations and the standalone callers      *)
(***************************************************************************)
Init ==
    /\ tasks = <<>>
    /\ handlers = [k \in TaskType |-> None]
    /\ execs = {}
    /\ proc = [p \in Runners \cup Callers |-> [pc |-> "idle", exc |-> NoExc]]

\* the shape of the state: Task records, the handler table, the coroutines
TypeOK ==
    /\ DOMAIN tasks = 1..Len(tasks)
    /\ \A t \in DOMAIN tasks :
          /\ tasks[t].type \in TaskType
          /\ tasks[t].dependencies \in DepLists
          /\ tasks[t].status \in {PENDING, RUNNING, COMPLETED, FAILED}
          /\ tasks[t].created_at = Stamp
          /\ tasks[t].started_at \in {None, Stamp}
          /\ tasks[t].completed_at \in {None, Stamp}
          /\ tasks[t].result \in {None, Result}
          /\ tasks[t].error \in {None, NoHandlerRegistered, HandlerError}
    /\ handlers \in [TaskType -> Handlers \cup {None}]
    /\ \A e \in execs :
          /\ e.owner \in Runners \cup Callers
          /\ e.task \in DOMAIN tasks
          /\ e.pc \in {"scheduled", "awaiting"}
          /\ e.handler \in Handlers \cup {None}
          /\ e.joined \in BOOLEAN
    /\ \A p \in Runners \cup Callers :
          /\ proc[p].pc \in {"idle", "scan", "gather", "await", "returned", "raised"}
          /\ proc[p].exc \in {NoExc, KeyError, DependencyNotCompleted,
                               NoHandlerRegistered, HandlerError, CancelledError}

Finished(p) == proc[p].pc \in {"idle", "returned", "raised"}

\* gather waiting only until every coroutine of the batch has started
ChildrenNotStarted(p) ==
    {e \in execs : e.owner = p /\ e.joined /\ e.pc = "scheduled"}

\* the coroutines of p's current batch that gather still waits for
Children(p) == {e \in execs : e.owner = p /\ e.joined}

(***************************************************************************)
(* register_handler and create_task.                                       *)
(***************************************************************************)
RegisterHandler(type, h) ==
    /\ handlers' = [handlers EXCEPT ![type] = h]
    /\ UNCHANGED <<tasks, execs, proc>>

CreateTask(type, deps) ==
    /\ Len(tasks) < MaxTasks
    /\ tasks' = [i \in DOMAIN tasks \cup {NewId(tasks)} |->
                    IF i \in DOMAIN tasks THEN tasks[i] ELSE NewTask(type, deps)]
    /\ UNCHANGED <<handlers, execs, proc>>

(***************************************************************************)
(* execute_task.                                                           *)
(***************************************************************************)
\* An exception x leaves the coroutine of owner p: a caller awaiting it gets
\* it; gather sets the first exception of its children on the future that
\* execute_all awaits; the exception of a task nobody awaits is dropped.
Deliver(pr, p, joined, x) ==
    IF p \in Callers THEN [pr EXCEPT ![p] = [pc |-> "raised", exc |-> x]]
    ELSE IF joined /\ pr[p].exc = NoExc THEN [pr EXCEPT ![p].exc = x]
    ELSE pr

\* The coroutine returns normally.
Return(pr, p) ==
    IF p \in Callers THEN [pr EXCEPT ![p] = [pc |-> "returned", exc |-> NoExc]]
    ELSE pr

\* every record of the registry replaced, as if all ids named one Task object
WriteAll(ts, t, rec) == [u \in DOMAIN ts |-> rec]

\* execute_task writes the attributes of the one Task object it looked up
\* under task_id; rec is that record after the writes
Write(ts, t, rec) == [ts EXCEPT ![t] = rec]

\* execute_task from its first line to the await of the handler, for task t
\* of owner p; rest is execs without this coroutine.
FirstStep(p, t, joined, rest) ==
    LET x == DepCheck(tasks, t)
        h == handlers[tasks[t].type]
    IN  IF x # NoExc
        THEN /\ tasks' = tasks
             /\ execs' = rest
             /\ proc' = Deliver(proc, p, joined, x)
        ELSE IF h = None
        THEN /\ tasks' = Write(tasks, t,
                             Failed(Started(tasks[t]), NoHandlerRegistered))
             /\ execs' = rest
             /\ proc' = Deliver(proc, p, joined, NoHandlerRegistered)
        ELSE /\ tasks' = Write(tasks, t, Started(tasks[t]))
             /\ execs' = rest \cup {[owner |-> p, task |-> t, pc |-> "awaiting",
                                      handler |-> h, joined |-> joined]}
             /\ proc' = IF p \in Callers
                        THEN [proc EXCEPT ![p] = [pc |-> "await", exc |-> NoExc]]
                        ELSE proc

\* A caller awaits execute_task(t): the coroutine runs at once to its first
\* suspension. Each caller makes one call.
CallExecuteTask(c, t) ==
    /\ proc[c].pc = "idle"
    /\ IF t \notin DOMAIN tasks
       THEN /\ proc' = Deliver(proc, c, TRUE, KeyError)
            /\ UNCHANGED <<tasks, execs>>
       ELSE FirstStep(c, t, TRUE, execs)
    /\ UNCHANGED handlers

\* The first step of a coroutine that gather scheduled. The event loop runs
\* the coroutines of one batch in the order gather was given them.
ExecStart(e) ==
    /\ e.pc = "scheduled"
    /\ \A f \in execs : f.owner = e.owner /\ f.pc = "scheduled" => e.task <= f.task
    /\ FirstStep(e.owner, e.task, e.joined, execs \ {e})
    /\ UNCHANGED handlers

\* The awaited handler resolves: execute_task runs from the await to its end.
ExecFinish(e) ==
    /\ e.pc = "awaiting"
    /\ execs' = execs \ {e}
    /\ LET x == HandlerRaises(e.handler)
       IN  IF x = NoExc
           THEN /\ tasks' = Write(tasks, e.task, Succeeded(tasks[e.task], Result))
                /\ proc' = Return(proc, e.owner)
           ELSE IF Caught(x)
           THEN /\ tasks' = Write(tasks, e.task, Failed(tasks[e.task], x))
                /\ proc' = Deliver(proc, e.owner, e.joined, x)
           ELSE /\ tasks' = tasks
                /\ proc' = Deliver(proc, e.owner, e.joined, x)
    /\ UNCHANGED handlers

(***************************************************************************)
(* execute_all.                                                            *)
(***************************************************************************)
\* execute_all() is called (awaited, or wrapped in asyncio.create_task as
\* src/src/ui/api.py does).
CallRunAll(r) ==
    /\ Finished(r)
    /\ proc' = [proc EXCEPT ![r] = [pc |-> "scan", exc |-> NoExc]]
    /\ UNCHANGED <<tasks, handlers, execs>>

\* One pass of the loop from `while True` to the await of gather.
Scan(r) ==
    /\ proc[r].pc = "scan"
    /\ IF ScanRaises(tasks)
       THEN /\ proc' = [proc EXCEPT ![r] = [pc |-> "raised", exc |-> KeyError]]
            /\ execs' = execs
       ELSE IF Executable(tasks) = {}
       THEN /\ proc' = [proc EXCEPT ![r] = [pc |-> "returned", exc |-> NoExc]]
            /\ execs' = execs
       ELSE /\ proc' = [proc EXCEPT ![r] = [pc |-> "gather", exc |-> NoExc]]
            /\ execs' = execs \cup
                         {[owner |-> r, task |-> t, pc |-> "scheduled",
                           handler |-> None, joined |-> TRUE] :
                          t \in Executable(tasks)}
    /\ UNCHANGED <<tasks, handlers>>

\* gather's future has a result: every coroutine of the batch returned.
GatherReturn(r) ==
    /\ proc[r].pc = "gather"
    /\ proc[r].exc = NoExc
    /\ Children(r) = {}
    /\ proc' = [proc EXCEPT ![r].pc = "scan"]
    /\ UNCHANGED <<tasks, handlers, execs>>

\* gather's future has the first exception of the batch: execute_all ends by
\* raising it. The other coroutines of the batch are not cancelled; every one
\* of them has run its first step by the time execute_all is woken.
GatherRaise(r) ==
    /\ proc[r].pc = "gather"
    /\ proc[r].exc # NoExc
    /\ \A e \in Children(r) : e.pc # "scheduled"
    /\ proc' = [proc EXCEPT ![r].pc = "raised"]
    /\ execs' = (execs \ Children(r)) \cup
                 {[e EXCEPT !.joined = FALSE] : e \in Children(r)}
    /\ UNCHANGED <<tasks, handlers>>

(***************************************************************************)
(* Any sequence of register_handler, create_task, execute_task and         *)
(* execute_all calls: one execute_all at a time, called again and again,   *)
(* with a standalone execute_task running beside it.                       *)
(***************************************************************************)
Next ==
    \/ \E k \in TaskType, h \in Handlers : RegisterHandler(k, h)
    \/ \E k \in TaskType, d \in DepArgs :
          Len(tasks) < MaxTasksAnyOrder /\ CreateTask(k, d)
    \/ \E c \in Callers, t \in Ids : CallExecuteTask(c, t)
    \/ \E e \in execs : ExecStart(e)
    \/ \E e \in execs : ExecFinish(e)
    \/ CallRunAll("r1")
    \/ \E r \in Runners : Scan(r)
    \/ \E r \in Runners : GatherReturn(r)
    \/ \E r \in Runners : GatherRaise(r)

Spec == Init /\ [][Next]_vars

(***************************************************************************)
(* execute_all as the only operation that changes task state, the way      *)
(* create_project of src/src/ui/api.py uses the manager: tasks are created *)
(* at any time, also while a run is in flight, and once an execute_all has *)
(* ended it may be called again, any number of times. The handlers are     *)
(* registered before the first call.                                       *)
(***************************************************************************)
NotStarted == \A p \in Runners \cup Callers : proc[p].pc = "idle"

SetupRegisterHandler(type, h) == NotStarted /\ RegisterHandler(type, h)

\* the first call of execute_all
FirstRunAll == proc["r1"].pc = "idle" /\ CallRunAll("r1")

\* a call of execute_all after the first one has ended
AgainRunAll == proc["r1"].pc \in {"returned", "raised"} /\ CallRunAll("r2")

NextRunAll ==
    \/ \E k \in TaskType, h \in Handlers : SetupRegisterHandler(k, h)
    \/ \E k \in TaskType, d \in DepArgs : CreateTask(k, d)
    \/ FirstRunAll
    \/ AgainRunAll
    \/ \E e \in execs : ExecStart(e)
    \/ \E e \in execs : ExecFinish(e)
    \/ \E r \in Runners : Scan(r)
    \/ \E r \in Runners : GatherReturn(r)
    \/ \E r \in Runners : GatherRaise(r)

SpecRunAll == Init /\ [][NextRunAll]_vars

\* The event loop runs every callback that is ready, and the claims about
\* termination assume that every awaited handler resolves.
Fairness ==
    /\ WF_vars(\E e \in execs : ExecStart(e))
    /\ WF_vars(\E e \in execs : ExecFinish(e))
    /\ WF_vars(\E r \in Runners : Scan(r))
    /\ WF_vars(\E r \in Runners : GatherReturn(r))
    /\ WF_vars(\E r \in Runners : GatherRaise(r))

SpecRunAllFair == SpecRunAll /\ Fairness

(***************************************************************************)
(* Vocabulary of the properties.                                           *)
(***************************************************************************)
Terminal(status) == status \in {COMPLETED, FAILED}

\* every dependency of t is a task in state COMPLETED
DepsCompleted(ts, t) ==
    \A i \in 1..Len(ts[t].dependencies) :
        /\ ts[t].dependencies[i] \in DOMAIN ts
        /\ ts[ts[t].dependencies[i]].status = COMPLETED

\* the tasks the resolver calls ready
Ready(ts) == {t \in DOMAIN ts : ts[t].status = PENDING /\ DepsCompleted(ts, t)}

\* d is in the dependency list of t
DependsOn(ts, t, d) ==
    \E i \in 1..Len(ts[t].dependencies) : ts[t].dependencies[i] = d

\* d is reached from t along at most n dependency edges
RECURSIVE DependsWithin(_, _, _, _)
DependsWithin(ts, t, d, n) ==
    /\ n > 0
    /\ \/ DependsOn(ts, t, d)
       \/ \E m \in DOMAIN ts :
              DependsOn(ts, t, m) /\ DependsWithin(ts, m, d, n - 1)

\* t is a direct or transitive dependent of d
DependsTrans(ts, t, d) == DependsWithin(ts, t, d, Len(ts))

\* This step dispatches t: it leaves a state other than RUNNING, or a new
\* coroutine of t reaches the await of its handler.
Dispatched(t) ==
    \/ tasks[t].status # RUNNING /\ tasks'[t].status # tasks[t].status
    \/ \E e \in execs' :
          /\ e.task = t
          /\ e.pc = "awaiting"
          /\ \A f \in execs :
                ~(f.owner = e.owner /\ f.task = t /\ f.pc = "awaiting")

(***************************************************************************)
(* C1. Over any sequence of calls, a task is dispatched (enters RUNNING)   *)
(* only in a state in which every one of its dependencies is COMPLETED.    *)
(***************************************************************************)
C1_DispatchOnlyAfterDependencies ==
    [][\A t \in DOMAIN tasks : Dispatched(t) => DepsCompleted(tasks, t)]_vars

\* a task with a dependency is RUNNING and the dependency is COMPLETED
C1_Witness ==
    \E t \in DOMAIN tasks :
        /\ tasks[t].dependencies # <<>>
        /\ tasks[t].status = RUNNING
        /\ DepsCompleted(tasks, t)

(***************************************************************************)
(* C2. A handler failure does not abort future batches: at the step in     *)
(* which execute_all ends after a handler failed, no PENDING task whose    *)
(* dependencies are all COMPLETED is left undispatched.                    *)
(***************************************************************************)
C2_FailureKeepsIterating ==
    [][\A r \in Runners :
          (/\ proc[r].pc = "gather"
           /\ proc'[r].pc = "raised"
           /\ proc'[r].exc = HandlerError) => Ready(tasks') = {}]_vars

(***************************************************************************)
(* C3. A task dispatched without a registered handler ends FAILED with the *)
(* NoHandlerRegistered error recorded, and execute_all does not end by     *)
(* raising that error to its caller.                                       *)
(***************************************************************************)
C3_NoHandlerNotPropagated ==
    /\ \A t \in DOMAIN tasks :
          tasks[t].error = NoHandlerRegistered => tasks[t].status = FAILED
    /\ \A r \in Runners :
          ~(proc[r].pc = "raised" /\ proc[r].exc = NoHandlerRegistered)

(***************************************************************************)
(* C4. With execute_all as the only operation that changes task state:     *)
(* whenever a task d is FAILED, every direct and transitive dependent of d *)
(* is PENDING (so none of them ever reaches RUNNING, during or after the   *)
(* run).                                                                   *)
(***************************************************************************)
C4_FailedDependencyBlocks ==
    \A d, t \in DOMAIN tasks :
        (tasks[d].status = FAILED /\ DependsTrans(tasks, t, d))
            => tasks[t].status = PENDING

\* execute_all has ended, d is FAILED and has a dependent that is not a
\* direct one
C4_Witness ==
    /\ Finished("r1") /\ proc["r1"].pc # "idle"
    /\ execs = {}
    /\ \E d, t \in DOMAIN tasks :
          /\ tasks[d].status = FAILED
          /\ tasks[d].error = HandlerError
          /\ DependsTrans(tasks, t, d)
          /\ ~DependsOn(tasks, t, d)
          /\ tasks[t].status = PENDING

(***************************************************************************)
(* C5. Terminal states are absorbing: over any sequence of calls, a task   *)
(* in state COMPLETED or FAILED never changes state again.                 *)
(***************************************************************************)
C5_TerminalAbsorbing ==
    [][\A t \in DOMAIN tasks :
          Terminal(tasks[t].status) => tasks'[t].status = tasks[t].status]_vars

(***************************************************************************)
(* C6. create_task adds no task whose dependency list names an id that is  *)
(* not the id of a task already in the registry (it fails instead).        *)
(***************************************************************************)
C6_InvalidDependencyRejected ==
    [][\A t \in DOMAIN tasks' \ DOMAIN tasks :
          \A i \in 1..Len(tasks'[t].dependencies) :
              tasks'[t].dependencies[i] \in DOMAIN tasks]_vars

(***************************************************************************)
(* C7. Once execute_all has ended, with no task created and no handler     *)
(* registered afterwards, a second call makes no task state transition:    *)
(* at the step in which an execute_all ends, a scan of the registry finds  *)
(* no task to dispatch.                                                    *)
(***************************************************************************)
C7_RunAllIdempotent ==
    [][\A r \in Runners :
          (proc[r].pc \in {"scan", "gather"} /\ proc'[r].pc \in {"returned", "raised"})
             => (ScanRaises(tasks') \/ Ready(tasks') = {})]_vars

(***************************************************************************)
(* C8. If the dependency graph is acyclic, every dependency id is the id   *)
(* of a task, and every task's kind has a handler that succeeds, then      *)
(* execute_all returns and every task is COMPLETED when it does, unless a  *)
(* task created during the run ends these conditions.                      *)
(***************************************************************************)
Acyclic(ts) == \A t \in DOMAIN ts : ~DependsTrans(ts, t, t)

DepsExist(ts) ==
    \A t \in DOMAIN ts : \A i \in 1..Len(ts[t].dependencies) :
        ts[t].dependencies[i] \in DOMAIN ts

AllHandlersSucceed == \A t \in DOMAIN tasks : handlers[tasks[t].type] = "ok"

WellFormed == Acyclic(tasks) /\ DepsExist(tasks) /\ AllHandlersSucceed

C8_WellFormedRunCompletesAll ==
    (proc["r1"].pc = "scan" /\ WellFormed)
    ~> (\/ /\ proc["r1"].pc = "returned"
           /\ \A t \in DOMAIN tasks : tasks[t].status = COMPLETED
        \/ ~WellFormed)

\* three tasks, one depending on the two others, all COMPLETED at the return
C8_Witness ==
    /\ proc["r1"].pc = "returned"
    /\ Len(tasks) = 3
    /\ \E t \in DOMAIN tasks : Len(tasks[t].dependencies) = 2
    /\ Acyclic(tasks) /\ DepsExist(tasks)
    /\ \A t \in DOMAIN tasks : tasks[t].status = COMPLETED

(***************************************************************************)
(* C9. On a registry with a dependency cycle execute_all ends (handlers    *)
(* resolving), and a task on a cycle is PENDING at all times and no        *)
(* coroutine is ever made for it.                                          *)
(***************************************************************************)
OnCycle(ts, t) == DependsTrans(ts, t, t)

C9_CycleStalls ==
    /\ [](\A t \in DOMAIN tasks :
            OnCycle(tasks, t) =>
                /\ tasks[t].status = PENDING
                /\ \A e \in execs : e.task # t)
    /\ (proc["r1"].pc = "scan" /\ \E t \in DOMAIN tasks : OnCycle(tasks, t))
       ~> Finished("r1")

\* execute_all has ended with the two tasks of a cycle PENDING and a third
\* task run
C9_Witness ==
    /\ proc["r1"].pc \in {"returned", "raised"}
    /\ \E a, b, c \in DOMAIN tasks :
          /\ a # b
          /\ DependsOn(tasks, a, b) /\ DependsOn(tasks, b, a)
          /\ tasks[a].status = PENDING /\ tasks[b].status = PENDING
          /\ Terminal(tasks[c].status)

(***************************************************************************)
(* C10. Two tasks with no dependency relation whose handlers are awaited   *)
(* in the same batch: when the handler of one of them resolves, by         *)
(* returning or by raising, that task reaches the terminal state its own   *)
(* handler's outcome gives and the record of the other is untouched,       *)
(* whichever resolves first and whichever fails.                           *)
(***************************************************************************)
\* COMPLETED when the handler returns, FAILED when it raises
OutcomeStatus(h) == IF h = "ok" THEN COMPLETED ELSE FAILED

\* t and u are awaited in one batch, each with the handler registered for
\* its kind (the handler table does not change once execute_all is called)
InSameBatch(t, u) ==
    \E e, f \in execs :
        /\ e.task = t /\ e.pc = "awaiting" /\ e.joined
        /\ f.task = u /\ f.pc = "awaiting" /\ f.joined
        /\ e.owner = f.owner
        /\ e.handler = handlers[tasks[t].type]
        /\ f.handler = handlers[tasks[u].type]
        /\ ~DependsTrans(tasks, t, u) /\ ~DependsTrans(tasks, u, t)

C10_IndependentTasksSettle ==
    [][\A t, u \in DOMAIN tasks : \A e \in execs :
          (/\ t # u
           /\ InSameBatch(t, u)
           /\ e.task = t /\ e.pc = "awaiting" /\ e.joined
           /\ \A f \in execs' : f.task # t)
             => /\ tasks'[t].status = OutcomeStatus(e.handler)
                /\ tasks'[u] = tasks[u]]_vars

(***************************************************************************)
(* C11. A standalone execute_task on a task with a dependency that is not  *)
(* COMPLETED.                                                              *)
(***************************************************************************)
\* some dependency of t is a registered task that is not COMPLETED
HasUnmetDependency(ts, t) ==
    \E i \in 1..Len(ts[t].dependencies) :
        /\ ts[t].dependencies[i] \in DOMAIN ts
        /\ ts[ts[t].dependencies[i]].status # COMPLETED

\* C11: a standalone execute_task(t) on a task that has a dependency which is
\* not COMPLETED ends by raising DependencyNotCompleted to its caller, before
\* anything is written: no handler is awaited, and the record of t, the
\* records of all other tasks and the handler table are as they were.
C11_UnmetDependencyRejectedUnchanged ==
    [][\A c \in Callers, t \in Ids :
          (/\ t \in DOMAIN tasks
           /\ HasUnmetDependency(tasks, t)
           /\ CallExecuteTask(c, t))
             => /\ proc'[c] = [pc |-> "raised", exc |-> DependencyNotCompleted]
                /\ tasks' = tasks
                /\ execs' = execs
                /\ handlers' = handlers]_vars

(***************************************************************************)
(* C12. The completion time of a task in a terminal state.                 *)
(***************************************************************************)
\* C12: every task in state COMPLETED or FAILED has its completion time set:
\* completed_at is written on entering either terminal state.
C12_TerminalHasCompletionTime ==
    \A t \in DOMAIN tasks :
        Terminal(tasks[t].status) => tasks[t].completed_at # None

(***************************************************************************)
(* C13. result and error against the status.                               *)
(***************************************************************************)
\* C13: in every state reachable by create_task, register_handler,
\* execute_task and execute_all a task carries a result only if its status is
\* COMPLETED and an error only if its status is FAILED.
C13_ResultOnlyCompletedErrorOnlyFailed ==
    \A t \in DOMAIN tasks :
        /\ tasks[t].result # None => tasks[t].status = COMPLETED
        /\ tasks[t].error # None => tasks[t].status = FAILED

(***************************************************************************)
(* C14. The ready set of one iteration of execute_all.                     *)
(***************************************************************************)
\* the tasks for which the step schedules a coroutine
Batch == {e.task : e \in execs' \ execs}

\* r runs one pass of the loop of execute_all
ScanStep(r) == proc[r].pc = "scan" /\ proc'[r].pc # "scan"

\* C14: in each iteration of execute_all the ready set is exactly the set of
\* PENDING tasks whose dependencies are all COMPLETED, computed from the task
\* states alone; in particular every PENDING task with an empty dependency
\* list is in the ready set of the iteration.
C14_ReadySetExact ==
    [][\A r \in Runners :
          ScanStep(r) =>
             /\ Batch = Ready(tasks)
             /\ \A t \in DOMAIN tasks :
                   (tasks[t].status = PENDING /\ tasks[t].dependencies = <<>>)
                      => t \in Batch]_vars

(***************************************************************************)
(* C15. The barrier between two batches of one execute_all.                *)
(***************************************************************************)
\* C15: execute_all is a full barrier per batch: an invocation computes its
\* next ready set only when every coroutine of the batch it dispatched has
\* run execute_task to its end, so a task whose dependencies complete early
\* in a batch is not dispatched before the slowest task of that batch has
\* settled.
C15_BatchBarrier ==
    [][\A r \in Runners :
          ScanStep(r) => \A e \in execs : e.owner = r => ~e.joined]_vars

\* a batch is in flight with a handler still awaited, and a task that was not
\* in the batch is PENDING with all of its dependencies COMPLETED
C15_Witness ==
    \E r \in Runners : \E e \in execs : \E t \in Ready(tasks) :
        /\ proc[r].pc = "gather"
        /\ e.owner = r /\ e.joined /\ e.pc = "awaiting"
        /\ tasks[t].dependencies # <<>>
        /\ \A f \in execs : f.task # t

(***************************************************************************)
(* C16. The dependency check of execute_task inside execute_all.           *)
(***************************************************************************)
\* C16: when execute_all is the only operation changing task state (no
\* standalone execute_task beside it, no second execute_all running at the
\* same time), no task dispatched by the batch loop fails the dependency
\* check of execute_task: every coroutine the loop has scheduled finds, when
\* it runs its check, all dependencies of its task COMPLETED, and
\* DependencyNotCompleted is never the exception execute_all ends with.
C16_BatchNeverFailsDependencyCheck ==
    /\ \A r \in Runners : proc[r].exc # DependencyNotCompleted
    /\ \A e \in execs : DepsCompleted(tasks, e.task)

\* a task with dependencies was dispatched by the batch loop and passed the
\* dependency check: its handler is awaited
C16_Witness ==
    \E e \in execs :
        /\ e.owner \in Runners /\ e.pc = "awaiting"
        /\ tasks[e.task].dependencies # <<>>
        /\ tasks[e.task].status = RUNNING

(***************************************************************************)
(* C17. What a step of execute_task leaves alone.                          *)
(***************************************************************************)
\* apart from the record of t the registry and the handler table are as they
\* were
OnlyWrites(t) ==
    /\ DOMAIN tasks' = DOMAIN tasks
    /\ \A u \in DOMAIN tasks : u # t => tasks'[u] = tasks[u]
    /\ handlers' = handlers

\* C17: an execution in flight writes only the record of its own task: when
\* execute_task(t) starts, completes or fails, the status, timestamps, result
\* and error of every other task, the set of registered tasks and the handler
\* table are unchanged by that step.
C17_ExecutionWritesOwnRecordOnly ==
    [][/\ \A c \in Callers, t \in Ids : CallExecuteTask(c, t) => OnlyWrites(t)
       /\ \A e \in execs :
             (ExecStart(e) \/ ExecFinish(e)) => OnlyWrites(e.task)]_vars

\* one task has completed with its result while the execution of another,
\* independent task is in flight and its record is RUNNING without a result
C17_Witness ==
    \E e \in execs : \E t \in DOMAIN tasks :
        /\ t # e.task /\ e.pc = "awaiting"
        /\ tasks[t].status = COMPLETED /\ tasks[t].result = Result
        /\ tasks[e.task].status = RUNNING /\ tasks[e.task].result = None
        /\ tasks[t].dependencies = <<>> /\ tasks[e.task].dependencies = <<>>

(***************************************************************************)
(* Two execute_all invocations on one registry, the way two requests to    *)
(* create_project of src/src/ui/api.py start them: each request wraps      *)
(* execute_all() of the one module-level TaskManager in                    *)
(* asyncio.create_task, so the second may start while the first is between *)
(* two of its awaits.                                                      *)
(***************************************************************************)
ConcurrentRunAll ==
    \E r \in Runners : proc[r].pc = "idle" /\ CallRunAll(r)

NextConcurrent ==
    \/ \E k \in TaskType, h \in Handlers : SetupRegisterHandler(k, h)
    \/ \E k \in TaskType, d \in DepArgs : CreateTask(k, d)
    \/ ConcurrentRunAll
    \/ \E e \in execs : ExecStart(e)
    \/ \E e \in execs : ExecFinish(e)
    \/ \E r \in Runners : Scan(r)
    \/ \E r \in Runners : GatherReturn(r)
    \/ \E r \in Runners : GatherRaise(r)

SpecConcurrent == Init /\ [][NextConcurrent]_vars

(***************************************************************************)
(* C18. Two concurrent execute_all invocations.                            *)
(***************************************************************************)
\* C18: each task is dispatched at most once even when two execute_all
\* invocations run concurrently on the same registry: no interleaving of
\* their scans puts the same PENDING task into both batches, so a task never
\* has two executions in flight and every execution that starts finds its
\* task PENDING.
C18_DispatchedAtMostOnce ==
    /\ \A e, f \in execs : e.task = f.task => e = f
    /\ \A e \in execs : e.pc = "scheduled" => tasks[e.task].status = PENDING

(***************************************************************************)
(* C19. The tasks of an execute_all invocation when it ends.               *)
(***************************************************************************)
\* C19: at the moment an execute_all invocation terminates, by returning or
\* by raising, no task it dispatched is still RUNNING: no coroutine of its
\* batch is left in flight.
C19_NothingRunningAtTermination ==
    \A r \in Runners :
        proc[r].pc \in {"returned", "raised"} =>
            \A e \in execs :
                e.owner = r => tasks[e.task].status # RUNNING

(***************************************************************************)
(* get_project_status of src/src/ui/api.py, as a function of the registry. *)
(* A float is written as the pair <<numerator, denominator>>.              *)
(***************************************************************************)
\* task.status == "completed": TaskStatus derives from Enum alone, so a member
\* is equal to itself only and never to the str that is its value
EnumEqualsStr(member, s) == FALSE

total_tasks(ts) == Len(ts)

completed_tasks(ts) ==
    Cardinality({t \in DOMAIN ts : EnumEqualsStr(ts[t].status, "completed")})

get_project_status(ts) ==
    [status   |-> IF completed_tasks(ts) < total_tasks(ts)
                  THEN "in_progress" ELSE "completed",
     progress |-> IF total_tasks(ts) > 0
                  THEN <<completed_tasks(ts), total_tasks(ts)>>
                  ELSE <<0, 1>>]

(***************************************************************************)
(* C20. What the project status endpoint reports.                          *)
(***************************************************************************)
\* the tasks whose status is COMPLETED
CompletedSet(ts) == {t \in DOMAIN ts : ts[t].status = COMPLETED}

\* C20: the status endpoint reports a progress equal to the number of
\* COMPLETED tasks divided by the number of tasks (0.0 when there are no
\* tasks), and the overall status "completed" when every task is COMPLETED
\* and "in_progress" otherwise.
C20_StatusReportsCompletedFraction ==
    LET reported == get_project_status(tasks)
        done == Cardinality(CompletedSet(tasks))
        total == Len(tasks)
    IN  /\ reported.progress[1] * (IF total = 0 THEN 1 ELSE total)
              = done * reported.progress[2]
        /\ reported.status =
              IF done = total THEN "completed" ELSE "in_progress"

====
